---------------------------- MODULE Spec2Model ----------------------------
(***************************************************************************)
(* A model of sphinx_rst_builder/_writer.py: RstWriter.translate walks a   *)
(* docutils document depth first and RstTranslator's visit_/depart_        *)
(* handlers render it through a stack of output frames, a list-counter     *)
(* stack and a table matrix.                                               *)
(*                                                                         *)
(* Text is a sequence of one-character strings, a line list a sequence of  *)
(* texts.  A Python value that may be None is <<>> (None) or <<v>>.        *)
(* Row and column indices are 0-based as in the source; TLA+ sequences are *)
(* 1-based, so row y of the matrix is table[y + 1].                        *)
(*                                                                         *)
(* The document is the input.  It is produced node by node while it is     *)
(* walked: a visit action draws the next child (its kind and attributes)   *)
(* from bounded sets, a depart action closes the innermost open node.      *)
(* Every open node keeps the children walked so far, so a node that is     *)
(* departed carries its whole subtree, as the docutils node object does.   *)
(***************************************************************************)
EXTENDS Integers, Sequences, FiniteSets, TLC

\* ------------------------------------------------------------------ bounds
\* rows of one table
MaxRows == 2
\* entries of one table, over all its rows
MaxCells == 3
\* sections open at once
MaxSectionDepth == 3
\* list items of one document, over all its lists
MaxItems == 3
\* lists of one document
MaxLists == 2

\* --------------------------------------------------------------- constants
\* sphinx.writers.text.STDINDENT, the default of self.indent
STDINDENT == 3

VARIABLES
    pc,             \* "walk", "walked" (walkabout returned), "done", "raised",
                    \* "drawing" (inside a loop of drawTable that does not end)
    exc,            \* the exception that ended the render, "" when none
    path,           \* the open nodes, outermost first (walkabout's recursion)
    node,           \* the node of the last handler call
    event,          \* "visit" or "depart": the last handler call ("" at start)
    grammar,        \* the document shapes explored: kind -> kinds of children
    output,         \* RstWriter.output
    body,           \* RstTranslator.body
    nl,             \* self.nl
    sectionchars,   \* self.sectionchars
    indent,         \* self.indent
    states,         \* self.states: the frame stack
    stateindent,    \* self.stateindent
    list_counter,   \* self.list_counter
    sectionlevel,   \* self.sectionlevel
    title_char,     \* self._title_char
    li_has_classifier, \* self._li_has_classifier, None before it is first set
    table,          \* self.table
    table_cur_row,  \* self.table_cur_row
    table_colspan,  \* self.table_colspan
    table_rowspan   \* self.table_rowspan

vars == <<pc, exc, path, node, event, grammar, output, body, nl, sectionchars,
          indent, states, stateindent, list_counter, sectionlevel, title_char,
          li_has_classifier, table, table_cur_row, table_colspan, table_rowspan>>

walker == <<pc, exc, path, node, event>>
config == <<grammar, nl, sectionchars, indent>>
frames == <<states, stateindent>>
tablevars == <<table, table_cur_row, table_colspan, table_rowspan>>
sectionvars == <<sectionlevel, title_char>>

\* ------------------------------------------------------------ Python values
None == <<>>
Some(v) == <<v>>
Val(o) == o[1]

Last(s) == s[Len(s)]
Front(s) == SubSeq(s, 1, Len(s) - 1)

\* c * n
RECURSIVE Repeat(_, _)
Repeat(c, n) == IF n <= 0 THEN <<>> ELSE <<c>> \o Repeat(c, n - 1)

\* ''.join(texts)
RECURSIVE Join(_)
Join(texts) == IF texts = <<>> THEN <<>> ELSE Head(texts) \o Join(Tail(texts))

\* sep.join(texts)
RECURSIVE JoinWith(_, _)
JoinWith(sep, texts) ==
    IF texts = <<>> THEN <<>>
    ELSE IF Len(texts) = 1 THEN texts[1]
    ELSE texts[1] \o sep \o JoinWith(sep, Tail(texts))

\* sep.join(text): Python joins the characters of a string
JoinChars(sep, text) == JoinWith(sep, [i \in 1..Len(text) |-> <<text[i]>>])

\* text.replace(old, ""), old of one or two characters
RECURSIVE Remove(_, _)
Remove(text, old) ==
    IF text = <<>> \/ old = <<>> THEN text
    ELSE IF Len(text) >= Len(old) /\ SubSeq(text, 1, Len(old)) = old
         THEN Remove(SubSeq(text, Len(old) + 1, Len(text)), old)
         ELSE <<Head(text)>> \o Remove(Tail(text), old)

\* text.splitlines(): lines end at "\n", "\r" or "\r\n"; no last empty line.
\* BreakEnds are the places where a line break ends, BreakStart(e) where the
\* break ending at e starts.
BreakEnds(text) ==
    {i \in 1..Len(text) :
        \/ text[i] = "\n"
        \/ text[i] = "\r" /\ ~(i < Len(text) /\ text[i + 1] = "\n")}

BreakStart(text, e) ==
    IF text[e] = "\n" /\ e > 1 /\ text[e - 1] = "\r" THEN e - 1 ELSE e

splitlines(text) ==
    LET ends == BreakEnds(text)
        n == Cardinality(ends)
        \* the k-th break end, 0 for k = 0
        End(k) == IF k = 0 THEN 0
                  ELSE CHOOSE e \in ends : Cardinality({j \in ends : j < e}) = k - 1
        whole == [k \in 1..n |-> SubSeq(text, End(k - 1) + 1, BreakStart(text, End(k)) - 1)]
    IN IF End(n) < Len(text)
       THEN Append(whole, SubSeq(text, End(n) + 1, Len(text)))
       ELSE whole

\* str(n) for 0 <= n <= 99
Digit(d) == <<"0", "1", "2", "3", "4", "5", "6", "7", "8", "9">>[d + 1]
str(n) == IF n < 10 THEN <<Digit(n)>> ELSE <<Digit(n \div 10), Digit(n % 10)>>

Sum(s) == LET RECURSIVE S(_)
              S(i) == IF i > Len(s) THEN 0 ELSE s[i] + S(i + 1)
          IN S(1)

\* ------------------------------------------------------------- frame stack
\* an entry of a frame: (-1, text) is Raw(text), (indent, lines) is a block
Raw(text) == [ind |-> -1, lines |-> <<text>>]
Block(ind, lines) == [ind |-> ind, lines |-> lines]

\* add_text
add_text(st, text) == [st EXCEPT ![Len(st)] = Append(@, Raw(text))]

\* do_format: the block of the raw text gathered so far, none for no text
do_format(toformat, ind, end) ==
    IF toformat = <<>> THEN <<>>
    ELSE <<Block(ind, splitlines(Join(toformat)) \o end)>>

\* the loop of end_state over the popped frame's content, and the last do_format
RECURSIVE end_loop(_, _, _, _, _)
end_loop(content, i, toformat, ind, end) ==
    IF i > Len(content) THEN do_format(toformat, ind, end)
    ELSE IF content[i].ind = -1
         THEN end_loop(content, i + 1, Append(toformat, content[i].lines[1]), ind, end)
         ELSE do_format(toformat, ind, end)
              \o <<Block(ind + content[i].ind, content[i].lines)>>
              \o end_loop(content, i + 1, <<>>, ind, end)

\* "if first is not None and result": the prefix goes before the first line
splice_first(result, ind, first) ==
    IF first # None /\ result # <<>> /\ result[1].lines # <<>>
    THEN <<Block(result[1].ind - ind, <<Val(first) \o result[1].lines[1]>>),
           Block(result[1].ind, Tail(result[1].lines))>> \o Tail(result)
    ELSE result

\* end_state(wrap=False, end, first) on the stacks st, si: the new frame stack.
\* end is a line list (<<>> for None), first is None or Some(prefix).
end_state(st, si, end, first) ==
    LET result == splice_first(end_loop(Last(st), 1, <<>>, Last(si), end), Last(si), first)
        rest == Front(st)
    IN [rest EXCEPT ![Len(rest)] = @ \o result]

DefaultEnd == <<<<>>>>

\* ------------------------------------------------------------ table drawing
\* a dict keyed by (row, column)
Keys(d) == DOMAIN d
DictSet(d, y, x, v) == (<<y, x>> :> v) @@ d

isInRowspan(y, x, rowspan) ==
    LET above == {i \in 0..(y - 1) : <<i, x>> \in Keys(rowspan)}
        row_i == IF above = {} THEN 0 ELSE CHOOSE i \in above : \A j \in above : j <= i
        rowspan_value == IF above = {} THEN 0 ELSE rowspan[<<row_i, x>>]
    IN rowspan_value - (y - row_i) > 0

writeCell(tbl, y, x, length, rowspan) ==
    LET text == tbl[y + 1][x + 1]
    IN IF isInRowspan(y, x, rowspan)
       THEN <<"|">> \o Repeat(" ", length)
       ELSE <<"|", " ">> \o text \o <<" ">> \o Repeat(" ", length - Len(text) - 2)

\* a writeColspanCell that leaves out the separators of the columns spanned
writeColspanCell_narrow(length, colspan_value) == Repeat(" ", length)

writeColspanCell(length, colspan_value) == Repeat(" ", length + colspan_value - 1)

\* a getMaxColWidth that measures the first row only
getMaxColWidth_first(tbl, idx) ==
    IF tbl # <<>> /\ Len(tbl[1]) > idx THEN Len(tbl[1][idx + 1]) + 2 ELSE 0

getMaxColWidth(tbl, idx) ==
    LET RECURSIVE M(_, _)
        M(r, maxi) ==
            IF r > Len(tbl) THEN maxi
            ELSE IF Len(tbl[r]) > idx /\ maxi < Len(tbl[r][idx + 1]) + 2
                 THEN M(r + 1, Len(tbl[r][idx + 1]) + 2)
                 ELSE M(r + 1, maxi)
    IN M(1, 0)

getMaxRowLen(tbl) ==
    LET RECURSIVE M(_, _)
        M(r, maxi) ==
            IF r > Len(tbl) THEN maxi
            ELSE M(r + 1, IF maxi < Len(tbl[r]) THEN Len(tbl[r]) ELSE maxi)
    IN M(1, 0)

getAllColLen(tbl) == [i \in 1..getMaxRowLen(tbl) |-> getMaxColWidth(tbl, i - 1)]

getMaxRowWidth(tbl) ==
    IF Len(tbl) = 0 THEN 0
    ELSE Sum(getAllColLen(tbl)) + Len(getAllColLen(tbl)) + 1

drawBorder(tbl, y, rowspan) ==
    LET col_widths == getAllColLen(tbl)
        length == getMaxRowWidth(tbl)
        RECURSIVE B(_, _, _)
        B(i, cell_w_count, cell_counter) ==
            IF i >= length THEN <<>>
            ELSE IF isInRowspan(y, cell_counter - 1, rowspan)
                    /\ ~(i = cell_w_count \/ i = length - 1)
                 THEN <<" ">> \o B(i + 1, cell_w_count, cell_counter)
            ELSE IF i = cell_w_count \/ i = length - 1
                 THEN IF cell_counter # getMaxRowLen(tbl)
                      THEN <<"+">> \o B(i + 1, cell_w_count + col_widths[cell_counter + 1] + 1,
                                        cell_counter + 1)
                      ELSE <<"+">> \o B(i + 1, cell_w_count, cell_counter)
            ELSE <<"-">> \o B(i + 1, cell_w_count, cell_counter)
    IN B(0, 0, 0) \o nl

\* the while loop of drawTable over the slots of row y
drawRow(tbl, y, colspan, rowspan) ==
    LET col_widths == getAllColLen(tbl)
        RECURSIVE W(_)
        W(x) ==
            IF x >= Len(tbl[y + 1]) THEN <<>>
            ELSE LET cell == writeCell(tbl, y, x, col_widths[x + 1], rowspan)
                 IN IF <<y, x>> \in Keys(colspan)
                    THEN LET colspan_value == colspan[<<y, x>>]
                             under == SubSeq(col_widths, x + 2,
                                             IF x + colspan_value < Len(col_widths)
                                             THEN x + colspan_value ELSE Len(col_widths))
                         IN cell \o writeColspanCell(Sum(under), colspan_value)
                                 \o W(x + colspan_value)
                    ELSE cell \o W(x + 1)
    IN W(0) \o <<"|">> \o nl

\* whether the while loop of drawTable over the slots of row y, from slot x on,
\* never ends: a span value of 0 leaves x where it is (x += 0 - 1, x += 1)
RECURSIVE row_loops(_, _, _, _)
row_loops(tbl, y, x, colspan) ==
    IF x >= Len(tbl[y + 1]) THEN FALSE
    ELSE IF <<y, x>> \in Keys(colspan)
         THEN IF colspan[<<y, x>>] <= 0 THEN TRUE
              ELSE row_loops(tbl, y, x + colspan[<<y, x>>], colspan)
         ELSE row_loops(tbl, y, x + 1, colspan)
drawTable_loops(tbl, colspan) == \E y \in 0..(Len(tbl) - 1) : row_loops(tbl, y, 0, colspan)

drawTable(tbl, colspan, rowspan) ==
    LET RECURSIVE R(_)
        R(y) == IF y >= Len(tbl) THEN <<>>
                ELSE drawBorder(tbl, y, rowspan) \o drawRow(tbl, y, colspan, rowspan) \o R(y + 1)
    IN R(0) \o drawBorder(tbl, getMaxRowLen(tbl) - 1, <<>>)


\* ------------------------------------------------------------------ inputs
\* an entry's morecols or morerows attribute: absent or a number of slots
NoSpan == {None}
OptSpan == {None, Some(1)}

\* ---------------------------------------------------------------- the walk
\* a node of the document: its kind, its attributes (name -> value) and the
\* children walked so far
Node(kind, attrs) == [kind |-> kind, attrs |-> attrs, kids |-> <<>>]
NoAttrs == <<>>
Has(n, a) == a \in DOMAIN n.attrs

Top == Last(path)
AddKid(p, n) == IF p = <<>> THEN p ELSE [p EXCEPT ![Len(p)].kids = Append(@, n)]

\* the open nodes of one kind
Open(kind) == {i \in 1..Len(path) : path[i].kind = kind}

\* docutils' Admonition classes, addnodes.seealso among them
Admonitions == {"attention", "caution", "danger", "error", "hint", "important",
                "note", "tip", "warning", "admonition", "seealso"}

\* the three list nodes
Lists == {"bullet_list", "enumerated_list", "definition_list"}

\* the text of a subtree (node.astext() of the children walked)
RECURSIVE astext(_)
astext(n) ==
    IF n.kind = "Text" THEN n.attrs.text
    ELSE Join([i \in 1..Len(n.kids) |-> astext(n.kids[i])])

\* entries in a table node's rows, the open row (if any) included
CellsOf(t) == Sum([i \in 1..Len(t.kids) |->
                    IF t.kids[i].kind = "row" THEN Len(t.kids[i].kids) ELSE 0])

\* the nodes of some kinds in a subtree, and among all the nodes walked so far
RECURSIVE CountIn(_, _)
CountIn(n, kinds) ==
    (IF n.kind \in kinds THEN 1 ELSE 0) + Sum([i \in 1..Len(n.kids) |-> CountIn(n.kids[i], kinds)])
Walked(kinds) == Sum([i \in 1..Len(path) |-> CountIn(path[i], kinds)])

\* the children of a kind the innermost open node has so far
KidsOfKind(kind) == Cardinality({i \in 1..Len(Top.kids) : Top.kids[i].kind = kind})

\* whether the shapes explored give the innermost open node one more child of
\* a kind: rows and entries by the bounds of a table, tables by the nesting
\* explored, sections, lists and items by their bounds, a title as the first
\* child only (as docutils builds it), every kind by the grammar's rule for
\* the parent; a definition list item is a term, its classifiers, a definition
Room(kind) ==
    /\ KidsOfKind(kind) < grammar.rules[Top.kind].max
    /\ kind = "row" => KidsOfKind("row") < MaxRows
    /\ kind = "entry" => CellsOf(path[Len(path) - 1]) + Len(Top.kids) < MaxCells + grammar.cells
    /\ kind = "table" => Cardinality(Open("table")) < grammar.nest
    /\ kind = "section" => Cardinality(Open("section")) < MaxSectionDepth
    /\ kind = "title" => Top.kids = <<>>
    /\ kind = "list_item" => Walked({"list_item"}) < MaxItems
    /\ kind \in Lists => Walked(Lists) < MaxLists
    /\ "width" \in DOMAIN grammar => Len(Top.kids) < grammar.width
    /\ kind = "term" => Top.kids = <<>>
    /\ kind = "classifier" =>
            /\ Top.kids # <<>> /\ Last(Top.kids).kind \in {"term", "classifier"}
            /\ Len(Top.kids) = 1 => Top.attrs.classifier_second
    /\ kind = "definition" =>
            /\ Top.kids # <<>> /\ Last(Top.kids).kind \in {"term", "classifier"}
            /\ Len(Top.kids) = 1 => ~Top.attrs.classifier_second

\* walkabout may call visit_<kind> for the next child of the innermost open node
CanVisit(kind) ==
    /\ pc = "walk"
    /\ path # <<>>
    /\ kind \in grammar.rules[Top.kind].kinds
    /\ Room(kind)

\* walkabout may call depart_<kind>: the innermost open node has that kind
CanDepart(kind) ==
    /\ pc = "walk"
    /\ path # <<>>
    /\ Top.kind = kind
    /\ Len(Top.kids) >= grammar.rules[kind].min
    /\ kind = "definition_list_item" => Last(Top.kids).kind = "definition"

\* the visit handler returned: walkabout goes on into the node's children
Enter(n) ==
    /\ pc' = "walk"
    /\ exc' = exc
    /\ path' = Append(path, n)
    /\ node' = n
    /\ event' = "visit"

\* the visit handler raised SkipNode: neither children nor departure
SkipNode(n) ==
    /\ pc' = "walk"
    /\ exc' = exc
    /\ path' = AddKid(path, n)
    /\ node' = n
    /\ event' = "visit"

\* the handler raised e, which leaves walkabout and translate
Raise(n, ev, e) ==
    /\ pc' = "raised"
    /\ exc' = e
    /\ path' = path
    /\ node' = n
    /\ event' = ev

\* the depart handler returned: the node is closed
Leave ==
    /\ pc' = "walk"
    /\ exc' = exc
    /\ path' = AddKid(Front(path), Top)
    /\ node' = Top
    /\ event' = "depart"

\* new_state(indent)
new_state(i) ==
    /\ states' = Append(states, <<>>)
    /\ stateindent' = Append(stateindent, i)

\* end_state(end=end, first=first) as a handler's last call
do_end_state(end, first) ==
    /\ states' = end_state(states, stateindent, end, first)
    /\ stateindent' = Front(stateindent)

\* ------------------------------------------------------ document and output
visit_document ==
    /\ pc = "walk" /\ path = <<>> /\ event = ""
    /\ Enter(Node("document", NoAttrs))
    /\ new_state(0)
    /\ UNCHANGED <<config, li_has_classifier, output, body, list_counter, sectionvars, tablevars>>

\* the lines of the root frame, indented, joined by nl
assemble(root) ==
    LET line_list == Join([i \in 1..Len(root) |->
                            [j \in 1..Len(root[i].lines) |->
                                IF root[i].lines[j] = <<>> THEN <<>>
                                ELSE Repeat(" ", root[i].ind) \o root[i].lines[j]]])
    IN JoinWith(nl, line_list)

depart_document ==
    /\ CanDepart("document")
    /\ IF Len(states) < 2
       THEN \* end_state pops the last frame: self.states[-1] fails
            /\ Raise(Top, "depart", "IndexError")
            /\ states' = Front(states)
            /\ stateindent' = Front(stateindent)
            /\ body' = body
       ELSE /\ pc' = "walked"
            /\ exc' = exc
            /\ path' = <<>>
            /\ node' = Top
            /\ event' = "depart"
            /\ do_end_state(DefaultEnd, None)
            /\ body' = Some(assemble(end_state(states, stateindent, DefaultEnd, None)[1]))
    /\ UNCHANGED <<config, li_has_classifier, output, list_counter, sectionvars, tablevars>>

\* RstWriter.translate after walkabout returned: self.output = visitor.body
translate ==
    /\ pc = "walked"
    /\ pc' = "done"
    /\ output' = body
    /\ UNCHANGED <<exc, path, node, event, config, li_has_classifier, body, frames, list_counter,
                   sectionvars, tablevars>>

\* --------------------------------------------------------- paragraph, Text
visit_paragraph ==
    /\ CanVisit("paragraph")
    /\ Enter(Node("paragraph", NoAttrs))
    /\ IF Top.kind \notin Admonitions \/ Top.kind = "seealso"
       THEN new_state(0)
       ELSE UNCHANGED frames
    /\ UNCHANGED <<config, li_has_classifier, output, body, list_counter, sectionvars, tablevars>>

depart_paragraph ==
    /\ CanDepart("paragraph")
    /\ Leave
    /\ IF path[Len(path) - 1].kind \notin Admonitions \/ path[Len(path) - 1].kind = "seealso"
       THEN do_end_state(DefaultEnd, None)
       ELSE UNCHANGED frames
    /\ UNCHANGED <<config, li_has_classifier, output, body, list_counter, sectionvars, tablevars>>

visit_Text ==
    /\ CanVisit("Text")
    /\ \E t \in grammar.texts :
        /\ Enter(Node("Text", [text |-> t]))
        /\ states' = add_text(states, t)
    /\ UNCHANGED <<config, li_has_classifier, output, body, stateindent, list_counter, sectionvars, tablevars>>

depart_Text ==
    /\ CanDepart("Text")
    /\ Leave
    /\ UNCHANGED <<config, li_has_classifier, output, body, frames, list_counter, sectionvars, tablevars>>

\* -------------------------------------------------------------------- table
\* "if self.table": a list is true when it is not empty
Truthy(t) == t # None /\ Val(t) # <<>>

visit_table ==
    /\ CanVisit("table")
    /\ LET n == Node("table", NoAttrs) IN
       IF Truthy(table)
       THEN /\ Raise(n, "visit", "NotImplementedError")
            /\ UNCHANGED <<frames, tablevars>>
       ELSE /\ Enter(n)
            /\ new_state(0)
            /\ table' = Some(<<>>)
            /\ table_cur_row' = 0
            /\ table_colspan' = Some(<<>>)
            /\ table_rowspan' = Some(<<>>)
    /\ UNCHANGED <<config, li_has_classifier, output, body, list_counter, sectionvars>>

depart_table ==
    /\ CanDepart("table")
    /\ IF table = None
       THEN \* drawTable(None, None, None): len(None)
            /\ Raise(Top, "depart", "TypeError")
            /\ UNCHANGED <<frames, tablevars>>
       ELSE IF drawTable_loops(Val(table), Val(table_colspan))
       THEN \* the handler does not return
            /\ pc' = "drawing"
            /\ exc' = exc
            /\ path' = path
            /\ node' = Top
            /\ event' = "depart"
            /\ UNCHANGED <<frames, tablevars>>
       ELSE /\ Leave
            /\ \E drawn \in {drawTable(Val(table), Val(table_colspan), Val(table_rowspan))} :
                  /\ states' = end_state(add_text(states, drawn), stateindent, DefaultEnd, None)
                  /\ stateindent' = Front(stateindent)
            /\ table' = None
            /\ table_colspan' = None
            /\ table_rowspan' = None
            /\ table_cur_row' = table_cur_row
    /\ UNCHANGED <<config, li_has_classifier, output, body, list_counter, sectionvars>>

visit_row ==
    /\ CanVisit("row")
    /\ LET n == Node("row", NoAttrs) IN
       IF table = None
       THEN \* len(None)
            /\ Raise(n, "visit", "TypeError")
            /\ table' = table
       ELSE /\ Enter(n)
            /\ table' = IF Len(Val(table)) <= table_cur_row
                        THEN Some(Append(Val(table), <<>>))
                        ELSE table
    /\ UNCHANGED <<config, li_has_classifier, output, body, frames, list_counter, sectionvars,
                   table_cur_row, table_colspan, table_rowspan>>

depart_row ==
    /\ CanDepart("row")
    /\ Leave
    /\ table_cur_row' = table_cur_row + 1
    /\ UNCHANGED <<config, li_has_classifier, output, body, frames, list_counter, sectionvars,
                   table, table_colspan, table_rowspan>>

visit_entry ==
    /\ CanVisit("entry")
    /\ \E mc \in grammar.morecols, mr \in grammar.morerows :
        Enter(Node("entry", (IF mc = None THEN NoAttrs ELSE "morecols" :> Val(mc))
                            @@ (IF mr = None THEN NoAttrs ELSE "morerows" :> Val(mr))))
    /\ new_state(0)
    /\ UNCHANGED <<config, li_has_classifier, output, body, list_counter, sectionvars, tablevars>>

\* the text of an entry: nl.join(nl.join(x[1]) for x in frame).replace(nl, "")
entry_text(frame) ==
    Remove(JoinWith(nl, [i \in 1..Len(frame) |->
                          IF frame[i].ind = -1 THEN JoinChars(nl, frame[i].lines[1])
                          ELSE JoinWith(nl, frame[i].lines)]), nl)

\* depart_entry on the matrix: the text, then the placeholders of morecols
entry_in_row(row, text, n) ==
    Append(row, text) \o (IF Has(n, "morecols") THEN [i \in 1..n.attrs.morecols |-> <<>>] ELSE <<>>)

\* the key depart_entry gives a spanning cell: the last slot of the row
y_index(row) == Len(row) - 1

depart_entry ==
    /\ CanDepart("entry")
    /\ states' = Front(states)
    /\ stateindent' = Front(stateindent)
    /\ IF table = None
       THEN \* None[self.table_cur_row]
            /\ Raise(Top, "depart", "TypeError")
            /\ UNCHANGED tablevars
       ELSE IF table_cur_row >= Len(Val(table))
       THEN /\ Raise(Top, "depart", "IndexError")
            /\ UNCHANGED tablevars
       ELSE LET n == Top
                r == table_cur_row
                text == entry_text(Last(states))
                plain == Append(Val(table)[r + 1], text)
                row == entry_in_row(Val(table)[r + 1], text, n)
                filled == [Val(table) EXCEPT ![r + 1] = row]
            IN /\ Leave
               /\ table_cur_row' = r
               /\ table_colspan' = IF Has(n, "morecols")
                                   THEN Some(DictSet(Val(table_colspan), r, y_index(plain),
                                                     1 + n.attrs.morecols))
                                   ELSE table_colspan
               /\ table_rowspan' = IF Has(n, "morerows")
                                   THEN Some(DictSet(Val(table_rowspan), r, y_index(row),
                                                     1 + n.attrs.morerows))
                                   ELSE table_rowspan
               /\ table' = IF Has(n, "morerows")
                           THEN Some(filled \o [i \in 1..n.attrs.morerows |-> <<<<>>>>])
                           ELSE Some(filled)
    /\ UNCHANGED <<config, li_has_classifier, output, body, list_counter, sectionvars>>

\* ------------------------------------------------------------ section, title
visit_section ==
    /\ CanVisit("section")
    /\ LET n == Node("section", NoAttrs) IN
       IF sectionlevel >= Len(sectionchars)
       THEN \* self.sectionchars[self.sectionlevel]
            /\ Raise(n, "visit", "IndexError")
            /\ UNCHANGED sectionvars
       ELSE /\ Enter(n)
            /\ title_char' = Some(sectionchars[sectionlevel + 1])
            /\ sectionlevel' = sectionlevel + 1
    /\ UNCHANGED <<config, li_has_classifier, output, body, frames, list_counter, tablevars>>

depart_section ==
    /\ CanDepart("section")
    /\ Leave
    /\ sectionlevel' = sectionlevel - 1
    /\ UNCHANGED <<config, li_has_classifier, output, body, frames, list_counter, title_char, tablevars>>

visit_title ==
    /\ CanVisit("title")
    /\ IF Top.kind \in Admonitions
       THEN \E t \in grammar.texts :
            /\ SkipNode([Node("title", NoAttrs) EXCEPT !.kids = <<Node("Text", [text |-> t])>>])
            /\ states' = add_text(states, t \o <<":", " ">>)
            /\ stateindent' = stateindent
       ELSE /\ Enter(Node("title", NoAttrs))
            /\ new_state(0)
    /\ UNCHANGED <<config, li_has_classifier, output, body, list_counter, sectionvars, tablevars>>

\* ''.join(x[1] for x in frame if x[0] == -1)
title_text(frame) ==
    Join([i \in 1..Len(frame) |-> IF frame[i].ind = -1 THEN frame[i].lines[1] ELSE <<>>])

depart_title ==
    /\ CanDepart("title")
    /\ Leave
    /\ LET char == IF path[Len(path) - 1].kind = "section" THEN Val(title_char) ELSE "^"
           text == title_text(Last(states))
           rest == Front(states)
       IN states' = [rest EXCEPT ![Len(rest)] =
                        Append(@, Block(0, <<<<>>, text, Repeat(char, Len(text)), <<>>>>))]
    /\ stateindent' = Front(stateindent)
    /\ UNCHANGED <<config, li_has_classifier, output, body, list_counter, sectionvars, tablevars>>

\* ---------------------------------------------------------------- references
\* the grave accent of reST markup, which a TLA+ string cannot hold: one
\* character of a text
BQ == "bq"

\* '`%s`_' % name and '`%s <%s>`_' % (text, uri)
named_ref(name) == <<BQ>> \o name \o <<BQ, "_">>
uri_ref(text, uri) == <<BQ>> \o text \o <<" ", "<">> \o uri \o <<">", BQ, "_">>

\* a visit_reference that raises without refuri and refid, whatever the name
reference_branch_strict(n) ==
    IF ~Has(n, "refuri")
    THEN IF Has(n, "refid") THEN "return" ELSE "raise"
    ELSE IF ~Has(n, "internal") THEN "external"
    ELSE "internal"

\* a visit_reference that skips a node with nothing but a refid, children and all
reference_branch_omit(n) ==
    IF ~Has(n, "refuri")
    THEN IF Has(n, "name") THEN "name"
         ELSE IF Has(n, "refid") THEN "omit"
         ELSE "raise"
    ELSE IF ~Has(n, "internal") THEN "external"
    ELSE "internal"

\* which way visit_reference goes for a node
reference_branch(n) ==
    IF ~Has(n, "refuri")
    THEN IF Has(n, "name") THEN "name"
         ELSE IF Has(n, "refid") THEN "return"
         ELSE "raise"
    ELSE IF ~Has(n, "internal") THEN "external"
    ELSE "internal"

visit_reference ==
    /\ CanVisit("reference")
    /\ \E a \in grammar.refs, t \in grammar.texts :
        LET n == Node("reference", a)
            branch == reference_branch(n)
        IN CASE branch = "name" ->
                    /\ SkipNode(n)
                    /\ states' = add_text(states, named_ref(a.name))
             [] branch = "return" ->
                    /\ Enter(n)
                    /\ states' = states
             [] branch = "raise" ->
                    /\ Raise(n, "visit", "NotImplementedError")
                    /\ states' = states
             [] branch = "external" ->
                    /\ SkipNode(n)
                    /\ states' = add_text(states, uri_ref(IF Has(n, "name") THEN a.name ELSE a.refuri,
                                                          a.refuri))
             [] branch = "internal" ->
                    \* node.astext(): the text of the children, which are not walked
                    /\ SkipNode([n EXCEPT !.kids = <<Node("Text", [text |-> t])>>])
                    /\ states' = add_text(states, uri_ref(t, a.refuri))
             [] OTHER ->
                    \* raise nodes.SkipNode with nothing added
                    /\ SkipNode(n)
                    /\ states' = states
    /\ UNCHANGED <<config, li_has_classifier, output, body, stateindent, list_counter, sectionvars, tablevars>>

depart_reference ==
    /\ CanDepart("reference")
    /\ Leave
    /\ UNCHANGED <<config, li_has_classifier, output, body, frames, list_counter, sectionvars, tablevars>>

\* log_unknown reads its local _log before the assignment two lines below
log_unknown == "UnboundLocalError"

\* depart_download_reference is never reached: the visit does not return
visit_download_reference ==
    /\ CanVisit("download_reference")
    /\ Raise(Node("download_reference", NoAttrs), "visit", log_unknown)
    /\ UNCHANGED <<config, li_has_classifier, output, body, frames, list_counter, sectionvars, tablevars>>

\* an unknown_visit that passes over the node in silence
unknown_visit_silent ==
    /\ CanVisit("unknown")
    /\ SkipNode(Node("unknown", NoAttrs))
    /\ UNCHANGED <<config, li_has_classifier, output, body, frames, list_counter, sectionvars, tablevars>>

\* a node of a class without a visit_ method
unknown_visit ==
    /\ CanVisit("unknown")
    /\ Raise(Node("unknown", NoAttrs), "visit", "NotImplementedError")
    /\ UNCHANGED <<config, li_has_classifier, output, body, frames, list_counter, sectionvars, tablevars>>

\* -------------------------------------------------------------------- lists
visit_bullet_list ==
    /\ CanVisit("bullet_list")
    /\ Enter(Node("bullet_list", NoAttrs))
    /\ list_counter' = Append(list_counter, -1)
    /\ UNCHANGED <<config, li_has_classifier, output, body, frames, sectionvars, tablevars>>

visit_enumerated_list ==
    /\ CanVisit("enumerated_list")
    /\ Enter(Node("enumerated_list", NoAttrs))
    /\ list_counter' = Append(list_counter, 0)
    /\ UNCHANGED <<config, li_has_classifier, output, body, frames, sectionvars, tablevars>>

visit_definition_list ==
    /\ CanVisit("definition_list")
    /\ Enter(Node("definition_list", NoAttrs))
    /\ list_counter' = Append(list_counter, -2)
    /\ UNCHANGED <<config, li_has_classifier, output, body, frames, sectionvars, tablevars>>

\* the three depart handlers of lists pop the counter
depart_list(kind) ==
    /\ CanDepart(kind)
    /\ Leave
    /\ list_counter' = Front(list_counter)
    /\ UNCHANGED <<config, li_has_classifier, output, body, frames, sectionvars, tablevars>>

depart_bullet_list == depart_list("bullet_list")
depart_enumerated_list == depart_list("enumerated_list")
depart_definition_list == depart_list("definition_list")

visit_list_item ==
    /\ CanVisit("list_item")
    /\ LET n == Node("list_item", NoAttrs) IN
       IF list_counter = <<>>
       THEN /\ Raise(n, "visit", "IndexError")
            /\ UNCHANGED <<frames, list_counter>>
       ELSE /\ Enter(n)
            /\ IF Last(list_counter) = -1
               THEN new_state(2) /\ list_counter' = list_counter
               ELSE IF Last(list_counter) = -2
               THEN UNCHANGED <<frames, list_counter>>
               ELSE /\ list_counter' = [list_counter EXCEPT ![Len(list_counter)] = @ + 1]
                    /\ new_state(Len(str(Last(list_counter) + 1)) + indent)
    /\ UNCHANGED <<config, li_has_classifier, output, body, sectionvars, tablevars>>

depart_list_item ==
    /\ CanDepart("list_item")
    /\ Leave
    /\ IF Last(list_counter) = -1
       THEN do_end_state(<<>>, Some(<<"*", " ">>))
       ELSE IF Last(list_counter) = -2
       THEN UNCHANGED frames
       ELSE do_end_state(<<>>, Some(str(Last(list_counter)) \o <<".", " ">>))
    /\ UNCHANGED <<config, li_has_classifier, output, body, list_counter, sectionvars, tablevars>>

\* ------------------------------------------------- definition lists, targets
\* the node carries what visit_definition_list_item reads from its children
\* before they are walked: whether the second child is a classifier
visit_definition_list_item ==
    /\ CanVisit("definition_list_item")
    /\ \E c \in BOOLEAN :
        /\ Enter(Node("definition_list_item", [classifier_second |-> c]))
        /\ li_has_classifier' = Some(c)
    /\ UNCHANGED <<config, output, body, frames, list_counter, sectionvars, tablevars>>

depart_definition_list_item ==
    /\ CanDepart("definition_list_item")
    /\ Leave
    /\ UNCHANGED <<config, li_has_classifier, output, body, frames, list_counter, sectionvars,
                   tablevars>>

visit_term ==
    /\ CanVisit("term")
    /\ Enter(Node("term", NoAttrs))
    /\ new_state(0)
    /\ UNCHANGED <<config, li_has_classifier, output, body, list_counter, sectionvars, tablevars>>

\* end_state as a handler's last call when the frame stack may be too short:
\* both stacks are popped, then self.states[-1] fails on the empty stack
end_state_or_raise(end, first) ==
    IF Len(states) < 2
    THEN /\ Raise(Top, "depart", "IndexError")
         /\ states' = Front(states)
         /\ stateindent' = Front(stateindent)
    ELSE /\ Leave
         /\ do_end_state(end, first)

depart_term ==
    /\ CanDepart("term")
    /\ IF li_has_classifier = None
       THEN /\ Raise(Top, "depart", "AttributeError")
            /\ UNCHANGED frames
       ELSE IF ~Val(li_has_classifier)
       THEN end_state_or_raise(<<>>, None)
       ELSE /\ Leave
            /\ UNCHANGED frames
    /\ UNCHANGED <<config, li_has_classifier, output, body, list_counter, sectionvars, tablevars>>

visit_classifier ==
    /\ CanVisit("classifier")
    /\ Enter(Node("classifier", NoAttrs))
    /\ states' = add_text(states, <<" ", ":", " ">>)
    /\ UNCHANGED <<config, li_has_classifier, output, body, stateindent, list_counter,
                   sectionvars, tablevars>>

depart_classifier ==
    /\ CanDepart("classifier")
    /\ end_state_or_raise(<<>>, None)
    /\ UNCHANGED <<config, li_has_classifier, output, body, list_counter, sectionvars, tablevars>>

visit_definition ==
    /\ CanVisit("definition")
    /\ Enter(Node("definition", NoAttrs))
    /\ new_state(indent)
    /\ UNCHANGED <<config, li_has_classifier, output, body, list_counter, sectionvars, tablevars>>

depart_definition ==
    /\ CanDepart("definition")
    /\ end_state_or_raise(DefaultEnd, None)
    /\ UNCHANGED <<config, li_has_classifier, output, body, list_counter, sectionvars, tablevars>>

\* '.. _' + refid + ':' + nl
target_text(refid) == <<".", ".", " ", "_">> \o refid \o <<":">> \o nl

visit_target ==
    /\ CanVisit("target")
    /\ \E r \in grammar.refids :
        LET n == Node("target", IF r = None THEN NoAttrs ELSE "refid" :> Val(r))
        IN /\ Enter(n)
           /\ IF Has(n, "refid")
              THEN /\ states' = Append(states, <<Raw(target_text(n.attrs.refid))>>)
                   /\ stateindent' = Append(stateindent, 0)
              ELSE UNCHANGED frames
    /\ UNCHANGED <<config, li_has_classifier, output, body, list_counter, sectionvars, tablevars>>

depart_target ==
    /\ CanDepart("target")
    /\ IF Has(Top, "refid")
       THEN end_state_or_raise(DefaultEnd, None)
       ELSE /\ Leave
            /\ UNCHANGED frames
    /\ UNCHANGED <<config, li_has_classifier, output, body, list_counter, sectionvars, tablevars>>

\* ------------------------------------------------------- image, raw, markup
\* _('[image: %s]') % alt and _('[image]'), in the untranslated locale
image_alt(alt) == <<"[", "i", "m", "a", "g", "e", ":", " ">> \o alt \o <<"]">>
image_plain == <<"[", "i", "m", "a", "g", "e", "]">>

\* the texts visit_image adds, in order
image_tokens(n) ==
    (IF Has(n, "alt") THEN <<image_alt(n.attrs.alt)>> ELSE <<>>) \o <<image_plain>>

RECURSIVE add_texts(_, _)
add_texts(st, texts) ==
    IF texts = <<>> THEN st ELSE add_texts(add_text(st, Head(texts)), Tail(texts))

visit_image ==
    /\ CanVisit("image")
    /\ \E a \in grammar.alts :
        LET n == Node("image", IF a = None THEN NoAttrs ELSE "alt" :> Val(a))
        IN /\ SkipNode(n)
           /\ states' = add_texts(states, image_tokens(n))
    /\ UNCHANGED <<config, li_has_classifier, output, body, stateindent, list_counter, sectionvars, tablevars>>

\* text.split() for words separated by blanks
RECURSIVE split(_)
split(text) ==
    LET blanks == {i \in 1..Len(text) : text[i] = " "}
        first == IF blanks = {} THEN Len(text) + 1
                 ELSE CHOOSE i \in blanks : \A j \in blanks : i <= j
        word == SubSeq(text, 1, first - 1)
        rest == IF first >= Len(text) THEN <<>> ELSE split(SubSeq(text, first + 1, Len(text)))
    IN IF text = <<>> THEN <<>>
       ELSE IF word = <<>> THEN rest ELSE <<word>> \o rest

\* 'text' in node.get('format', '').split()
raw_is_text(n) ==
    LET words == split(IF Has(n, "format") THEN n.attrs.format ELSE <<>>)
    IN \E i \in 1..Len(words) : words[i] = <<"t", "e", "x", "t">>

\* self.body is not an attribute of the translator before depart_document
\* assigns it: self.body.append fails
visit_raw ==
    /\ CanVisit("raw")
    /\ \E f \in grammar.formats, t \in grammar.texts :
        LET n == [Node("raw", IF f = None THEN NoAttrs ELSE "format" :> Val(f))
                    EXCEPT !.kids = <<Node("Text", [text |-> t])>>]
        IN IF raw_is_text(n)
           THEN Raise(n, "visit", "AttributeError")
           ELSE SkipNode(n)
    /\ UNCHANGED <<config, li_has_classifier, output, body, frames, list_counter, sectionvars, tablevars>>

\* a visit_literal and depart_literal of one grave accent
literal_token_single == <<BQ>>

\* '``'
literal_token == <<BQ, BQ>>

\* the text an inline markup node adds when it is visited and when it is departed
markup_open(kind) ==
    CASE kind = "emphasis" -> <<"*">>
      [] kind = "strong" -> <<"*", "*">>
      [] kind = "literal" -> literal_token
      [] kind = "subscript" -> <<"_">>
      [] kind = "superscript" -> <<"^">>
markup_close(kind) ==
    CASE kind = "emphasis" -> Some(<<"*">>)
      [] kind = "strong" -> Some(<<"*", "*">>)
      [] kind = "literal" -> Some(literal_token)
      [] kind = "subscript" -> None
      [] kind = "superscript" -> None

visit_markup(kind) ==
    /\ CanVisit(kind)
    /\ Enter(Node(kind, NoAttrs))
    /\ states' = add_text(states, markup_open(kind))
    /\ UNCHANGED <<config, li_has_classifier, output, body, stateindent, list_counter, sectionvars, tablevars>>

depart_markup(kind) ==
    /\ CanDepart(kind)
    /\ Leave
    /\ states' = IF markup_close(kind) = None THEN states
                 ELSE add_text(states, Val(markup_close(kind)))
    /\ UNCHANGED <<config, li_has_classifier, output, body, stateindent, list_counter, sectionvars, tablevars>>

visit_emphasis == visit_markup("emphasis")
depart_emphasis == depart_markup("emphasis")
visit_strong == visit_markup("strong")
depart_strong == depart_markup("strong")
visit_literal == visit_markup("literal")
depart_literal == depart_markup("literal")
visit_subscript == visit_markup("subscript")
depart_subscript == depart_markup("subscript")
visit_superscript == visit_markup("superscript")
depart_superscript == depart_markup("superscript")

\* ------------------------------------------------------------ construction
\* RstTranslator.__init__ and RstWriter.output = None
InitTranslator ==
    /\ pc = "walk"
    /\ exc = ""
    /\ path = <<>>
    /\ node = Node("", NoAttrs)
    /\ event = ""
    /\ output = None
    /\ body = None
    /\ states = <<<<>>>>
    /\ stateindent = <<0>>
    /\ list_counter = <<>>
    /\ sectionlevel = 0
    /\ title_char = None
    /\ li_has_classifier = None
    /\ table = None
    /\ table_cur_row = None
    /\ table_colspan = None
    /\ table_rowspan = None

\* ------------------------------------------------------------------ tables
\* a rule of a grammar: the kinds of a node's children, the least number of
\* children and the most children of one kind
Rule(kinds, min, max) == [kinds |-> kinds, min |-> min, max |-> max]
Leaf == Rule({}, 0, 0)
\* as many children as the bounds of a table allow
Many == MaxRows + MaxCells + 1

\* tables whose entries hold a paragraph of text: the children of each kind
TableRules(in_table, in_entry) ==
    [k \in {"document", "table", "row", "entry", "paragraph", "Text"} |->
        CASE k = "document" -> Rule({"table"}, 0, 1)
          [] k = "table" -> Rule(in_table, 0, Many)
          [] k = "row" -> Rule({"entry"}, 0, Many)
          [] k = "entry" -> Rule(in_entry, 1, 1)
          [] k = "paragraph" -> Rule({"Text"}, 1, 1)
          [] k = "Text" -> Leaf]

\* tables without spans, of texts of two lengths, one entry more than MaxCells
GridGrammar ==
    [name |-> "grid", rules |-> TableRules({"row"}, {"paragraph"}),
     texts |-> {<<"a">>, <<"b", "b">>}, morecols |-> NoSpan, morerows |-> NoSpan,
     cells |-> 1, nest |-> 1]

\* tables whose entries span columns, rows, both or neither
SpanGrammar ==
    [name |-> "span", rules |-> TableRules({"row"}, {"paragraph"}),
     texts |-> {<<"a">>}, morecols |-> OptSpan, morerows |-> OptSpan,
     cells |-> 0, nest |-> 1]

\* a table inside a table: among its rows, before them, or inside an entry
NestGrammar ==
    [name |-> "nest", rules |-> [TableRules({"row", "table"}, {"paragraph", "table"})
                                  EXCEPT !["table"].max = 1],
     texts |-> {<<"a">>}, morecols |-> NoSpan, morerows |-> NoSpan,
     cells |-> 0, nest |-> 2]

InitTable ==
    /\ InitTranslator
    /\ grammar \in {GridGrammar, SpanGrammar, NestGrammar}
    /\ nl = <<"\n">>
    /\ sectionchars = <<"*", "=", "-", "~", "\"", "+", BQ>>
    /\ indent = STDINDENT

\* tables whose entries carry span attributes of -1 as well
AnySpanGrammar ==
    [name |-> "anyspan", rules |-> TableRules({"row"}, {"paragraph"}),
     texts |-> {<<"a">>}, morecols |-> {None, Some(-1), Some(1)},
     morerows |-> {None, Some(-1)}, cells |-> 0, nest |-> 1]

InitAnySpan ==
    /\ InitTranslator
    /\ grammar = AnySpanGrammar
    /\ nl = <<"\n">>
    /\ sectionchars = <<"*", "=", "-", "~", "\"", "+", BQ>>
    /\ indent = STDINDENT

NextTable ==
    \/ visit_document \/ depart_document \/ translate
    \/ visit_table \/ depart_table
    \/ visit_row \/ depart_row
    \/ visit_entry \/ depart_entry
    \/ visit_paragraph \/ depart_paragraph
    \/ visit_Text \/ depart_Text

SpecTable == InitTable /\ [][NextTable]_vars

\* the walk is one sequential program: it takes its next step whenever it has one
SpecAnySpan == InitAnySpan /\ [][NextTable]_vars /\ WF_vars(NextTable)

\* ------------------------------------------- paragraphs, sections and lists
\* the attributes of a reference node: every choice of refuri, name, refid,
\* internal and reftitle
Opt(a, v) == {NoAttrs, a :> v}
RefAttrs ==
    {u @@ n @@ i @@ x @@ t :
        u \in Opt("refuri", <<"u">>), n \in Opt("name", <<"n">>), i \in Opt("refid", <<"i">>),
        x \in Opt("internal", TRUE), t \in Opt("reftitle", <<"t">>)}

\* a paragraph of text, references, a download reference and a node without a
\* handler, in any order
InlineGrammar ==
    [name |-> "inline",
     rules |-> [k \in {"document", "paragraph", "reference", "download_reference",
                       "unknown", "Text"} |->
                 CASE k = "document" -> Rule({"paragraph", "unknown"}, 0, 1)
                   [] k = "paragraph" -> Rule({"Text", "reference", "download_reference",
                                               "unknown"}, 0, 1)
                   [] k = "reference" -> Rule({"Text"}, 0, 1)
                   [] OTHER -> Leaf],
     texts |-> {<<"a">>}, refs |-> RefAttrs]

\* a section in a section in a section, each with a title first or none
SectionGrammar ==
    [name |-> "section",
     rules |-> [k \in {"document", "section", "title", "Text"} |->
                 CASE k = "document" -> Rule({"title", "section"}, 0, 1)
                   [] k = "section" -> Rule({"title", "section"}, 0, 1)
                   [] k = "title" -> Rule({"Text"}, 0, 1)
                   [] OTHER -> Leaf],
     texts |-> {<<"a">>, <<"b", "b">>}]

\* lists of items that hold a paragraph, lists, both or nothing
ListGrammar ==
    [name |-> "list",
     rules |-> [k \in Lists \cup {"document", "list_item", "paragraph", "Text"} |->
                 CASE k = "document" -> Rule(Lists, 0, 1)
                   [] k \in Lists -> Rule({"list_item"}, 0, MaxItems)
                   [] k = "list_item" -> Rule(Lists \cup {"paragraph"}, 0, 1)
                   [] k = "paragraph" -> Rule({"Text"}, 1, 1)
                   [] OTHER -> Leaf],
     texts |-> {<<"a">>}]

\* the inline markup nodes
Markups == {"emphasis", "strong", "literal", "subscript", "superscript"}

\* a paragraph of at most three children: text, an image, a raw node, and
\* inline markup around a text
MarkupGrammar ==
    [name |-> "markup",
     rules |-> [k \in Markups \cup {"document", "paragraph", "image", "raw", "Text"} |->
                 CASE k = "document" -> Rule({"paragraph", "raw"}, 0, 1)
                   [] k = "paragraph" -> Rule(Markups \cup {"Text", "image", "raw"}, 0, 2)
                   [] k \in Markups -> Rule({"Text"}, 0, 1)
                   [] OTHER -> Leaf],
     texts |-> {<<"a">>}, width |-> 2,
     alts |-> {None, Some(<<"x">>)},
     formats |-> {None, Some(<<"t", "e", "x", "t">>), Some(<<"h", "t", "m", "l">>),
                  Some(<<"h", "t", "m", "l", " ", "t", "e", "x", "t">>)}]

\* a definition list of items (a term, up to two classifiers, a definition),
\* targets with and without a refid, a paragraph
DefinitionGrammar ==
    [name |-> "definition",
     rules |-> [k \in {"document", "definition_list", "definition_list_item", "term",
                       "classifier", "definition", "target", "paragraph", "Text"} |->
                 CASE k = "document" -> Rule({"definition_list", "target", "paragraph"}, 0, 1)
                   [] k = "definition_list" -> Rule({"definition_list_item"}, 1, 2)
                   [] k = "definition_list_item" -> Rule({"term", "classifier", "definition"}, 1, 2)
                   [] k = "term" -> Rule({"Text"}, 1, 1)
                   [] k = "classifier" -> Rule({"Text"}, 1, 1)
                   [] k = "definition" -> Rule({"paragraph"}, 1, 1)
                   [] k = "paragraph" -> Rule({"Text"}, 1, 1)
                   [] OTHER -> Leaf],
     texts |-> {<<"a">>}, refids |-> {None, Some(<<"i">>)}]

\* text_sectionchars: one character, two, and the default of seven
SectionChars ==
    {<<"=">>, <<"=", "-">>, <<"*", "=", "-", "~", "\"", "+", BQ>>}

Init ==
    /\ InitTranslator
    /\ indent = STDINDENT
    /\ \/ /\ grammar = InlineGrammar
          /\ nl \in {<<"\n">>, <<"\r", "\n">>}
          /\ sectionchars = <<"*", "=", "-", "~", "\"", "+", BQ>>
       \/ /\ grammar = SectionGrammar
          /\ nl = <<"\n">>
          /\ sectionchars \in SectionChars
       \/ /\ grammar \in {ListGrammar, MarkupGrammar, DefinitionGrammar}
          /\ nl = <<"\n">>
          /\ sectionchars = <<"*", "=", "-", "~", "\"", "+", BQ>>

Next ==
    \/ visit_document \/ depart_document \/ translate
    \/ visit_paragraph \/ depart_paragraph
    \/ visit_Text \/ depart_Text
    \/ visit_section \/ depart_section
    \/ visit_title \/ depart_title
    \/ visit_reference \/ depart_reference
    \/ visit_download_reference
    \/ unknown_visit
    \/ visit_bullet_list \/ depart_bullet_list
    \/ visit_enumerated_list \/ depart_enumerated_list
    \/ visit_definition_list \/ depart_definition_list
    \/ visit_list_item \/ depart_list_item
    \/ visit_image \/ visit_raw
    \/ visit_emphasis \/ depart_emphasis
    \/ visit_strong \/ depart_strong
    \/ visit_literal \/ depart_literal
    \/ visit_subscript \/ depart_subscript
    \/ visit_superscript \/ depart_superscript
    \/ visit_definition_list_item \/ depart_definition_list_item
    \/ visit_term \/ depart_term
    \/ visit_classifier \/ depart_classifier
    \/ visit_definition \/ depart_definition
    \/ visit_target \/ depart_target

Spec == Init /\ [][Next]_vars

\* -------------------------------------- properties: paragraphs, sections, lists
\* the handler that returned last
Visited(kind) == pc = "walk" /\ event = "visit" /\ node.kind = kind
Departed(kind) == pc \in {"walk", "walked"} /\ event = "depart" /\ node.kind = kind

\* C1: a node whose kind has no handler aborts the render with a fatal error and
\* the writer's output is never assigned, whatever was rendered before it.
C1_UnknownNodeFatal ==
    (event = "visit" /\ node.kind = "unknown") =>
        (pc = "raised" /\ exc = "NotImplementedError" /\ output = None)

\* the render was aborted at a node without a handler that follows text in a
\* paragraph
C1_Witness ==
    /\ pc = "raised" /\ event = "visit" /\ node.kind = "unknown"
    /\ Top.kind = "paragraph" /\ Top.kids # <<>> /\ Top.kids[1].kind = "Text"
    /\ Last(states) # <<>>
    /\ output = None

\* a reference node without refuri and without refid
Unresolved(n) == n.kind = "reference" /\ ~Has(n, "refuri") /\ ~Has(n, "refid")

\* C3 as stated: a reference with neither refuri nor refid aborts the render,
\* whether or not it has a name.
C3_UnresolvedFatal ==
    (event = "visit" /\ Unresolved(node)) => (pc = "raised" /\ exc = "NotImplementedError")

\* C3 amended: a reference with neither refuri nor refid aborts the render when
\* it has no name; with a name it adds `name`_ and the render goes on past its
\* subtree.
C3_UnresolvedFatalUnlessNamed ==
    (event = "visit" /\ Unresolved(node)) =>
        IF Has(node, "name")
        THEN /\ pc = "walk" /\ exc = ""
             /\ Last(Last(states)) = Raw(<<BQ>> \o node.attrs.name \o <<BQ, "_">>)
             /\ Last(Top.kids) = node
        ELSE /\ pc = "raised" /\ exc = "NotImplementedError"
             /\ output = None

\* the render was aborted at a reference without refuri, refid and name
C3_Witness ==
    /\ pc = "raised" /\ event = "visit" /\ Unresolved(node) /\ ~Has(node, "name")
    /\ exc = "NotImplementedError"

\* C4: a download_reference node emits nothing and raises nothing; the traversal
\* goes on into its children.
C4_DownloadReferenceContinues ==
    (event = "visit" /\ node.kind = "download_reference") =>
        (pc = "walk" /\ exc = "" /\ Top = node)

\* the prefix an item of an enumerated list got: the first line of what
\* depart_list_item added to the enclosing frame starts with the item's index
\* among its siblings and ". "
StartsWith(text, prefix) ==
    Len(text) >= Len(prefix) /\ SubSeq(text, 1, Len(prefix)) = prefix
ItemPrefixed ==
    LET added == Len(states[Len(states) - 1])
        index == Len(Last(path').kids)
    IN /\ Len(Last(states')) > added
       /\ Last(states')[added + 1].lines # <<>>
       /\ StartsWith(Last(states')[added + 1].lines[1], str(index) \o <<".", " ">>)

\* C5: the items of an enumerated list are prefixed '1. ', '2. ', ... in
\* document order, one prefix per item (empty items too), at any nesting depth
\* and whatever lists are inside its items or around it.
C5_ItemsNumbered ==
    [][(Departed("list_item")' /\ path' # path /\ Last(path').kind = "enumerated_list")
        => ItemPrefixed]_vars

\* the depth of the innermost open section: the sections open around it
Depth == Cardinality(Open("section")) - 1
CyclicChar == sectionchars[(Depth % Len(sectionchars)) + 1]

\* C6: a section at depth d is never an error, and its title is underlined with
\* the character at index (d modulo the length of the configured sequence),
\* repeated to the length of the title text.
C6_CyclicUnderline ==
    /\ (event = "visit" /\ node.kind = "section") =>
            (pc = "walk" /\ title_char = Some(CyclicChar))
    /\ (Departed("title") /\ Top.kind = "section") =>
            Last(Last(states)).lines =
                <<<<>>, astext(node), Repeat(CyclicChar, Len(astext(node))), <<>>>>

\* a reference node with nothing to resolve but a refid
RefidOnly(n) == n.kind = "reference" /\ ~Has(n, "refuri") /\ ~Has(n, "name") /\ Has(n, "refid")

\* C10 as stated: the visit of a reference that has only a refid, and of its
\* subtree, adds no text.
C10_Omitted ==
    [][(event' = "visit" /\ pc' = "walk"
            /\ (RefidOnly(node') \/ \E i \in 1..Len(path) : RefidOnly(path[i])))
        => states' = states]_vars

\* C10 amended: the visit and the departure of a reference that has only a
\* refid add no text and raise nothing; its children are walked, and the text
\* of a Text child is added as plain text.
C10_NodeSilentChildrenRendered ==
    [][/\ (event' = "visit" /\ RefidOnly(node')) =>
            (pc' = "walk" /\ states' = states /\ path' = Append(path, node'))
       /\ (event' = "depart" /\ RefidOnly(node')) =>
            (pc' = "walk" /\ states' = states)
       /\ (event' = "visit" /\ node'.kind = "Text" /\ path # <<>> /\ RefidOnly(Top)) =>
            (pc' = "walk" /\ states' = add_text(states, node'.attrs.text))]_vars

\* the text inside a reference that has only a refid was added to the paragraph
C10_Witness ==
    /\ Visited("Text") /\ Len(path) >= 2
    /\ RefidOnly(path[Len(path) - 1])
    /\ Last(Last(states)) = Raw(node.attrs.text)

\* C11: an image node adds exactly one text, '[image: <alt>]' when it has an
\* alt attribute and '[image]' when it has none, and its children are skipped.
C11_OneImageToken ==
    [][(event' = "visit" /\ node'.kind = "image") =>
        /\ pc' = "walk" /\ path' = AddKid(path, node')
        /\ states' = add_text(states, IF Has(node', "alt") THEN image_alt(node'.attrs.alt)
                                      ELSE image_plain)]_vars

\* C12: a raw node whose format includes 'text' adds its text unchanged at its
\* place and the render goes on past its children; a raw node of another format
\* adds nothing.
C12_RawTextVerbatim ==
    [][(event' = "visit" /\ node'.kind = "raw") =>
        /\ pc' = "walk" /\ path' = AddKid(path, node')
        /\ states' = IF Has(node', "format")
                        /\ \E i \in 1..Len(split(node'.attrs.format)) :
                            split(node'.attrs.format)[i] = <<"t", "e", "x", "t">>
                     THEN add_text(states, astext(node'))
                     ELSE states]_vars

\* what a visit and a departure of an inline markup node add, for a literal
\* token lit: the same text on both sides, but nothing after a subscript or a
\* superscript
MarkupToken(kind, lit) ==
    CASE kind = "emphasis" -> <<"*">>
      [] kind = "strong" -> <<"*", "*">>
      [] kind = "literal" -> lit
      [] kind = "subscript" -> <<"_">>
      [] kind = "superscript" -> <<"^">>
MarkupWraps(lit) ==
    /\ (event' = "visit" /\ node'.kind \in Markups) =>
            (pc' = "walk" /\ states' = add_text(states, MarkupToken(node'.kind, lit)))
    /\ (event' = "depart" /\ node'.kind \in Markups) =>
            /\ pc' = "walk"
            /\ states' = IF node'.kind \in {"subscript", "superscript"} THEN states
                         ELSE add_text(states, MarkupToken(node'.kind, lit))

\* C13 as stated: emphasis '*'...'*', strong '**'...'**', literal one grave
\* accent on each side, subscript the prefix '_', superscript the prefix '^'.
C13_MarkupSingleAccent == [][MarkupWraps(<<BQ>>)]_vars

\* C13 amended: the same, with two grave accents on each side of a literal.
C13_MarkupDoubleAccent == [][MarkupWraps(<<BQ, BQ>>)]_vars

\* a literal around the text a has been walked: ``a`` is in the paragraph
C13_Witness ==
    /\ Departed("literal") /\ astext(node) = <<"a">>
    /\ Len(Last(states)) >= 3
    /\ SubSeq(Last(states), Len(Last(states)) - 2, Len(Last(states)))
        = <<Raw(<<BQ, BQ>>), Raw(<<"a">>), Raw(<<BQ, BQ>>)>>

\* whether the visit of the open node path[i] pushed a frame
Pushes(i) ==
    LET k == path[i].kind
        parent == IF i = 1 THEN "" ELSE path[i - 1].kind
    IN \/ k \in {"document", "table", "entry", "term", "definition"}
       \/ k = "title" /\ parent \notin Admonitions
       \/ k = "paragraph" /\ (parent \notin Admonitions \/ parent = "seealso")
       \/ k = "list_item" /\ parent \in {"bullet_list", "enumerated_list"}
       \/ k = "target" /\ Has(path[i], "refid")

\* C15: every frame pushed by a node's visit is popped by the same node's
\* depart, so the depth of the stack is the root frame plus one frame for each
\* open node whose visit pushes, only the root frame is left after the walk,
\* and the stack is never empty.
C15_FramesPaired ==
    /\ Len(states) >= 1
    /\ Len(stateindent) = Len(states)
    /\ pc = "walk" => Len(states) = 1 + Cardinality({i \in 1..Len(path) : Pushes(i)})
    /\ pc \in {"walked", "done"} => Len(states) = 1

\* ------------------------------------------------------- properties: tables
\* the lines depart_table left in the enclosing frame, without the blank line
\* that closes the block
Rendered == Front(Last(Last(states)).lines)

Rows(t) == t.kids
NoSpans(e) == ~Has(e, "morecols") /\ ~Has(e, "morerows")

\* a table node of N >= 1 rows of M entries each, none of them spanning
IsGridTable(t) ==
    /\ t.kind = "table"
    /\ Len(Rows(t)) >= 1
    /\ \A r \in 1..Len(Rows(t)) :
        /\ Rows(t)[r].kind = "row"
        /\ Len(Rows(t)[r].kids) = Len(Rows(t)[1].kids)
        /\ \A c \in 1..Len(Rows(t)[r].kids) : NoSpans(Rows(t)[r].kids[c])

CellText(t, r, c) == astext(Rows(t)[r].kids[c])
MaxOf(S) == CHOOSE m \in S : \A n \in S : n <= m

\* the grid of the text specification for a table node without spans
GridWidth(t, c) == 2 + MaxOf({Len(CellText(t, r, c)) : r \in 1..Len(Rows(t))})
GridBorder(t) ==
    <<"+">> \o Join([c \in 1..Len(Rows(t)[1].kids) |-> Repeat("-", GridWidth(t, c)) \o <<"+">>])
GridContent(t, r) ==
    Join([c \in 1..Len(Rows(t)[1].kids) |->
            <<"|", " ">> \o CellText(t, r, c)
                \o Repeat(" ", GridWidth(t, c) - 1 - Len(CellText(t, r, c)))]) \o <<"|">>
GridLines(t) ==
    [i \in 1..(2 * Len(Rows(t)) + 1) |->
        IF i % 2 = 1 THEN GridBorder(t) ELSE GridContent(t, i \div 2)]
GridLineLen(t) ==
    Sum([c \in 1..Len(Rows(t)[1].kids) |-> GridWidth(t, c)]) + Len(Rows(t)[1].kids) + 1

\* C7: a table of N >= 1 rows by M columns without spans is drawn as N + 1 border
\* lines alternating with N content lines, all of the length (sum of the column
\* widths) + M + 1; column c is 2 + (its longest text) wide, and a cell is
\* "| " + text + blanks up to the column width.
C7_GridDrawn ==
    (Departed("table") /\ IsGridTable(node)) =>
        /\ Rendered = GridLines(node)
        /\ \A i \in 1..Len(Rendered) : Len(Rendered[i]) = GridLineLen(node)

\* a 2 by 2 grid whose first column holds texts of two lengths has been drawn
C7_Witness ==
    /\ Departed("table") /\ IsGridTable(node)
    /\ Len(Rows(node)) = 2 /\ Len(Rows(node)[1].kids) = 2
    /\ Len(CellText(node, 1, 1)) < Len(CellText(node, 2, 1))
    /\ Len(Rendered) = 5

\* the width of column c (0-based) of a matrix by the text specification: 2 +
\* the longest text the rows hold at c
SlotWidth(tbl, c) ==
    2 + MaxOf({Len(tbl[r][c + 1]) : r \in {q \in 1..Len(tbl) : Len(tbl[q]) > c}})
\* the place (1-based) of the bar that opens column c in a content line
BarAt(tbl, c) == Sum([j \in 1..c |-> SlotWidth(tbl, j - 1) + 1]) + 1
LongestRow(tbl) == MaxOf({Len(tbl[r]) : r \in 1..Len(tbl)})

\* depart_entry of an entry with morecols: the text, then k - 1 placeholders
ColspanPlaced ==
    (Departed("entry")' /\ path' # path /\ Has(node', "morecols")) =>
        LET k == 1 + node'.attrs.morecols
            old == Val(table)[table_cur_row + 1]
            new == Val(table')[table_cur_row + 1]
            x == Len(old)
        IN /\ Len(new) = x + k
           /\ SubSeq(new, 1, x) = old
           /\ new[x + 1] = astext(node')
           /\ \A j \in 2..k : new[x + j] = <<>>
           /\ <<table_cur_row, x>> \in Keys(Val(table_colspan'))
           /\ Val(table_colspan')[<<table_cur_row, x>>] = k

\* depart_table: every cell recorded as spanning k columns is one bordered cell
ColspanDrawn ==
    (Departed("table")' /\ path' # path) =>
        LET tbl == Val(table)
            spans == Val(table_colspan)
            lines == Rendered'
        IN \A key \in Keys(spans) :
            LET y == key[1]
                x == key[2]
                k == spans[key]
                line == lines[2 * y + 2]
                left == BarAt(tbl, x)
                inner == Sum([j \in 1..k |-> SlotWidth(tbl, x + j - 1)]) + (k - 1)
            IN /\ Len(line) >= left + inner + 1
               /\ line[left] = "|"
               /\ line[left + inner + 1] = "|"
               /\ \A i \in (left + 1)..(left + inner) : line[i] # "|"
               /\ Len(tbl[y + 1]) = LongestRow(tbl) => Len(line) = Len(lines[1])

PlusPlaces(line) == {i \in 1..Len(line) : line[i] = "+"}
NthPlus(line, n) ==
    CHOOSE p \in PlusPlaces(line) : Cardinality({q \in PlusPlaces(line) : q < p}) = n - 1
\* the column (0-based) of the j-th entry of a table's first row
FirstRowColumn(t, j) ==
    Sum([i \in 1..(j - 1) |->
        IF Has(Rows(t)[1].kids[i], "morecols") THEN 1 + Rows(t)[1].kids[i].attrs.morecols ELSE 1])
Blank(text) == \A i \in 1..Len(text) : text[i] = " "

\* C9, for the cells of a table's first row (r = 0): a cell at column c that
\* spans k rows has its text drawn at column c of the first row; each of the
\* rows 1..k-1 draws a blank continuation cell at column c and the border line
\* above that row is blank across column c.
C9_RowspanContinuation ==
    (Departed("table") /\ Len(Rows(node)) >= 1 /\ Rows(node)[1].kind = "row") =>
        \A j \in 1..Len(Rows(node)[1].kids) :
            LET e == Rows(node)[1].kids[j]
                c == FirstRowColumn(node, j)
                top == Rendered[1]
                p == NthPlus(top, c + 1)
                q == NthPlus(top, c + 2)
            IN Has(e, "morerows") =>
                /\ Cardinality(PlusPlaces(top)) >= c + 2
                /\ SubSeq(Rendered[2], p, p + 1 + Len(astext(e))) = <<"|", " ">> \o astext(e)
                /\ \A y \in 1..e.attrs.morerows :
                    /\ Len(Rendered) >= 2 * y + 2
                    /\ Len(Rendered[2 * y + 2]) >= q
                    /\ Rendered[2 * y + 2][p] = "|"
                    /\ Blank(SubSeq(Rendered[2 * y + 2], p + 1, q - 1))
                    /\ Blank(SubSeq(Rendered[2 * y + 1], p + 1, q - 1))

\* C14: the render of every finite document ends, at the document's exit or
\* at a fatal error, whatever integers the morecols and morerows attributes of
\* the table entries are.
C14_RenderTerminates == <>(pc \in {"done", "raised"})

\* the grid of a table node: an entry is as wide as 1 + morecols, as high as
\* 1 + morerows; the entries of a row take the free columns from the left
Wide(e) == IF Has(e, "morecols") THEN 1 + e.attrs.morecols ELSE 1
High(e) == IF Has(e, "morerows") THEN 1 + e.attrs.morerows ELSE 1
RECURSIVE GridColumn(_, _, _), Covered(_, _, _)
\* column x (0-based) of row r is taken by an entry of a row above
Covered(t, r, x) ==
    \E r0 \in 1..(r - 1) : \E j \in 1..Len(Rows(t)[r0].kids) :
        LET e == Rows(t)[r0].kids[j]
            c == GridColumn(t, r0, j)
        IN r0 + High(e) > r /\ c <= x /\ x < c + Wide(e)
\* the column (0-based) of the j-th entry of row r
GridColumn(t, r, j) ==
    LET from == IF j = 1 THEN 0
                ELSE GridColumn(t, r, j - 1) + Wide(Rows(t)[r].kids[j - 1])
        free == {x \in from..(from + MaxRows * (MaxCells + 1)) : ~Covered(t, r, x)}
    IN CHOOSE x \in free : \A z \in free : x <= z
\* a line without its bars and blanks
Inked(line) == SelectSeq(line, LAMBDA ch : ch \notin {"|", " "})
RowText(t, r) == Join([j \in 1..Len(Rows(t)[r].kids) |-> astext(Rows(t)[r].kids[j])])

\* the columns of row r: those of its entries and those taken from above
RowColumns(t, r) ==
    Sum([j \in 1..Len(Rows(t)[r].kids) |-> Wide(Rows(t)[r].kids[j])])
        + Cardinality({x \in 0..(MaxRows * (MaxCells + 1)) : Covered(t, r, x)})
\* every row has an entry and the columns of the first row, no entry reaches
\* below the last row
IsRectangular(t) ==
    /\ Len(Rows(t)) >= 1
    /\ \A r \in 1..Len(Rows(t)) :
        /\ Rows(t)[r].kind = "row"
        /\ Rows(t)[r].kids # <<>>
        /\ RowColumns(t, r) = RowColumns(t, 1)
        /\ \A j \in 1..Len(Rows(t)[r].kids) : r + High(Rows(t)[r].kids[j]) - 1 <= Len(Rows(t))

\* the matrix m was built for the table node t, which was drawn as lines
CellsKept(t, m, lines) ==
    /\ Len(m) = Len(Rows(t))
    /\ \A r \in 1..Len(Rows(t)) :
        /\ \A j \in 1..Len(Rows(t)[r].kids) :
            /\ r <= Len(m)
            /\ GridColumn(t, r, j) < Len(m[r])
            /\ m[r][GridColumn(t, r, j) + 1] = astext(Rows(t)[r].kids[j])
        /\ 2 * r <= Len(lines)
        /\ Inked(lines[2 * r]) = RowText(t, r)

\* C16: when a table whose rows fill the same columns has been walked and
\* drawn, the matrix has one row for each row node, the text of every entry is
\* in the matrix at the entry's column of the grid, and the content line of
\* each row shows the texts of the row's entries, with or without spans over
\* rows.
C16_CellsKept ==
    [][(/\ event' = "depart" /\ node'.kind = "table" /\ pc' = "walk" /\ table # None
        /\ IsRectangular(node')) =>
            CellsKept(node', Val(table), Rendered')]_vars

\* C2: at most one table is active: a table visited while another table is
\* open is a fatal error, so a table whose visit returns is the only open one.
C2_NestedTableFatal == Visited("table") => Cardinality(Open("table")) = 1

=============================================================================
